---------------------------- MODULE Spec2Model ----------------------------
(***************************************************************************)
(* Model of the image service of src/handler.py: four Lambda handlers      *)
(* (upload_image, list_images, get_image, delete_image) over an S3 bucket  *)
(* and a DynamoDB table.                                                   *)
(*                                                                         *)
(* Conventions                                                             *)
(*   - a Python str is a TLA+ string, except base64 text, which is a       *)
(*     sequence of characters: 0..63 are the characters of the standard    *)
(*     alphabet (A-Z a-z 0-9 + /) by their sextet value, 64 is "=" and 65  *)
(*     is a character outside the alphabet (such as "!");                  *)
(*   - bytes are sequences over 0..255;                                    *)
(*   - a Python dict is a set of <<key, value>> pairs with distinct keys;  *)
(*   - an exception is a record [cls, msg], msg being str(e).              *)
(***************************************************************************)
EXTENDS Integers, Sequences, FiniteSets, TLC

\* Number of uuid4() values the model lets the service draw.
MaxUploads == 2

-----------------------------------------------------------------------------
(* Python dicts *)

DHas(d, k) == \E p \in d : p[1] = k

DGet(d, k) == (CHOOSE p \in d : p[1] = k)[2]

-----------------------------------------------------------------------------
(* base64, as base64.b64encode and base64.b64decode (validate=False)       *)
(* compute it.                                                             *)

RECURSIVE b64encode_nopad(_)
\* b64encode without the trailing "=" padding.
b64encode_nopad(bs) ==
    IF Len(bs) = 0 THEN <<>>
    ELSE IF Len(bs) = 1 THEN
        << bs[1] \div 4, (bs[1] % 4) * 16 >>
    ELSE IF Len(bs) = 2 THEN
        << bs[1] \div 4, (bs[1] % 4) * 16 + bs[2] \div 16, (bs[2] % 16) * 4 >>
    ELSE
        << bs[1] \div 4,
           (bs[1] % 4) * 16 + bs[2] \div 16,
           (bs[2] % 16) * 4 + bs[3] \div 64,
           bs[3] % 64 >> \o b64encode_nopad(SubSeq(bs, 4, Len(bs)))

RECURSIVE b64encode(_)
\* base64.b64encode(bs).decode(): three bytes to four characters, the last
\* group padded with "=".
b64encode(bs) ==
    IF Len(bs) = 0 THEN <<>>
    ELSE IF Len(bs) = 1 THEN
        << bs[1] \div 4, (bs[1] % 4) * 16, 64, 64 >>
    ELSE IF Len(bs) = 2 THEN
        << bs[1] \div 4, (bs[1] % 4) * 16 + bs[2] \div 16, (bs[2] % 16) * 4, 64 >>
    ELSE
        << bs[1] \div 4,
           (bs[1] % 4) * 16 + bs[2] \div 16,
           (bs[2] % 16) * 4 + bs[3] \div 64,
           bs[3] % 64 >> \o b64encode(SubSeq(bs, 4, Len(bs)))

RECURSIVE a2b_base64(_, _, _, _, _, _)
\* binascii.a2b_base64 in its non-strict mode, the decoder behind
\* base64.b64decode(s): characters outside the alphabet are skipped, a
\* completed pad sequence ends the parse (what follows is ignored), and a
\* group left open at the end is an error.
a2b_base64(s, i, quad_pos, leftchar, pads, out) ==
    IF i > Len(s) THEN
        IF quad_pos # 0 THEN [ok |-> FALSE, bytes |-> <<>>]
        ELSE [ok |-> TRUE, bytes |-> out]
    ELSE IF s[i] = 64 THEN
        IF quad_pos >= 2 /\ quad_pos + pads + 1 >= 4
        THEN [ok |-> TRUE, bytes |-> out]
        ELSE a2b_base64(s, i + 1, quad_pos, leftchar,
                        IF quad_pos >= 2 THEN pads + 1 ELSE pads, out)
    ELSE IF s[i] > 64 THEN
        a2b_base64(s, i + 1, quad_pos, leftchar, pads, out)
    ELSE IF quad_pos = 0 THEN
        a2b_base64(s, i + 1, 1, s[i], 0, out)
    ELSE IF quad_pos = 1 THEN
        a2b_base64(s, i + 1, 2, s[i] % 16, 0,
                   Append(out, leftchar * 4 + s[i] \div 16))
    ELSE IF quad_pos = 2 THEN
        a2b_base64(s, i + 1, 3, s[i] % 4, 0,
                   Append(out, leftchar * 16 + s[i] \div 4))
    ELSE
        a2b_base64(s, i + 1, 0, 0, 0, Append(out, leftchar * 64 + s[i]))

\* base64.b64decode(s): [ok |-> FALSE] stands for binascii.Error.
b64decode(s) == a2b_base64(s, 1, 0, 0, 0, <<>>)

-----------------------------------------------------------------------------
(* Exceptions *)

Exc(cls, msg) == [cls |-> cls, msg |-> msg]

NoExc == Exc("none", "")

\* botocore.exceptions.ClientError: what the stores raise for an error
\* response of the service; its message is never empty.
ClientError(code) == Exc("ClientError", code)

\* 'NoneType' / 'list' object has no attribute 'get'
AttributeError == Exc("AttributeError", "object has no attribute 'get'")

\* The exceptions a store call is made to raise: an error response of the
\* service, and exceptions of other classes, whose str() may be empty
\* (str(Exception()) = "").
InjectedExceptions ==
    { ClientError("InternalError"), Exc("Exception", "store failed"), Exc("Exception", "") }

\* A fault plan: the store call that raises in this invocation, and what.
NoFault == [call |-> "none", exc |-> NoExc]

Faults(calls) == {NoFault} \cup [call : calls, exc : InjectedExceptions]

-----------------------------------------------------------------------------
(* Events *)

JNull == [t |-> "null", obj |-> {}]

JArray == [t |-> "array", obj |-> {}]

JObj(d) == [t |-> "object", obj |-> d]

\* event.get("body"): None (or no such key), "", text that is not JSON,
\* and JSON text, given by the value it parses to.
BNone == [kind |-> "none", json |-> JNull]

BEmpty == [kind |-> "empty", json |-> JNull]

BMalformed == [kind |-> "malformed", json |-> JNull]

BJson(v) == [kind |-> "json", json |-> v]

\* event.get("queryStringParameters"): no such key, null, or a mapping.
QMissing == [kind |-> "missing", map |-> {}]

QNull == [kind |-> "null", map |-> {}]

QMap(d) == [kind |-> "map", map |-> d]

Event(method, body, qsp) ==
    [httpMethod |-> method, body |-> body, queryStringParameters |-> qsp]

\* The base64 text of bytes b as a client writes it (RFC 4648, padded):
\* character i is the sextet at position i of the 24-bit groups, "=" past
\* the end of the data.
Base64(b) ==
    [i \in 1..(4 * ((Len(b) + 2) \div 3)) |->
        LET g == (i - 1) \div 4
            pos == (i - 1) % 4
            Byte(k) == IF k <= Len(b) THEN b[k] ELSE 0
            n == Byte(3 * g + 1) * 65536 + Byte(3 * g + 2) * 256 + Byte(3 * g + 3)
            sextet == CASE pos = 0 -> n \div 262144
                        [] pos = 1 -> (n \div 4096) % 64
                        [] pos = 2 -> (n \div 64) % 64
                        [] OTHER   -> n % 64
        IN  IF pos >= 2 /\ 3 * g + pos > Len(b) THEN 64 ELSE sextet]

\* Whether text s is base64 as RFC 4648 defines it: only characters of the
\* alphabet, a multiple of four of them, "=" only as the last one or two.
IsValidBase64(s) ==
    /\ Len(s) % 4 = 0
    /\ \A i \in 1..Len(s) :
          /\ s[i] <= 64
          /\ s[i] = 64 => /\ i >= Len(s) - 1
                          /\ i = Len(s) - 1 => s[Len(s)] = 64

FileNames == {"a.png", "b.png"}

\* Image contents: "hi", and four bytes that encode to a full group and a
\* padded one ("ABCD/w==").
Blobs == { <<104, 105>>, <<0, 16, 131, 255>> }

\* file_content texts that are not the encoding of any bytes: "aGk" (padding
\* missing) and "aGk=!" (a character outside the alphabet).
IrregularTexts == { <<26, 6, 36>>, <<26, 6, 36, 64, 65>> }

\* The date of the run, and the dates a list may filter by.
Today == "2025-10-05"

Dates == { "2025-10-05", "2025-10-06" }

\* str(uuid.uuid4()) for the n-th identifier drawn: identifiers never repeat.
uuid4_constant(n) == "uuid-1"

uuid4(n) == "uuid-" \o ToString(n)

Ids == { uuid4(n) : n \in 1..MaxUploads } \cup {"no-such-id"}

\* JSON objects sent to upload_image: every combination of a missing, empty
\* or given file_name with a missing, empty, well-formed or irregular
\* file_content; none carries the optional metadata.
UploadObjects ==
    { name \cup content :
        name \in {{}} \cup { {<<"file_name", f>>} : f \in FileNames \cup {""} },
        content \in {{}} \cup { {<<"file_content", c>>} :
                        c \in {<<>>} \cup { Base64(b) : b \in Blobs } \cup IrregularTexts } }

UploadBodies ==
    {BNone, BEmpty, BMalformed, BJson(JNull), BJson(JArray)}
    \cup { BJson(JObj(o)) : o \in UploadObjects }

\* A well-formed upload of blob b under file name f.
UploadOf(f, b) ==
    Event("POST", BJson(JObj({ <<"file_name", f>>, <<"file_content", Base64(b)>> })),
          QMissing)

\* POST with every body; GET with no body, with text that is not JSON, with
\* a JSON array, with an object missing its fields and with a well-formed
\* object.
UploadEvents ==
    { Event("POST", b, QMissing) : b \in UploadBodies }
    \cup { Event("GET", b, QMissing) :
             b \in { BNone, BMalformed, BJson(JArray), BJson(JObj({})),
                     UploadOf("a.png", <<104, 105>>).body } }

DeleteBodies ==
    {BNone, BEmpty, BMalformed, BJson(JNull), BJson(JArray), BJson(JObj({}))}
    \cup { BJson(JObj({<<"id", i>>})) : i \in Ids \cup {""} }

\* A well-formed delete of id i.
DeleteOf(i) == Event("DELETE", BJson(JObj({<<"id", i>>})), QMissing)

DeleteEvents ==
    { Event("DELETE", b, QMissing) : b \in DeleteBodies }
    \cup { Event("POST", b, QMissing) :
             b \in { BNone, BMalformed, BJson(JArray), DeleteOf(uuid4(1)).body } }

\* A get of id i.
GetOf(i) == Event("GET", BNone, QMap({<<"id", i>>}))

GetEvents ==
    { Event("GET", BNone, q) :
        q \in {QMissing, QNull, QMap({}), QMap({<<"wrong_key", "123">>})}
              \cup { QMap({<<"id", i>>}) : i \in Ids \cup {""} } }

ListFilters ==
    { f \cup c :
        f \in {{}} \cup { {<<"file_name", x>>} : x \in {"a.png", ""} },
        c \in {{}} \cup { {<<"created_at", x>>} : x \in Dates } }
    \cup { { <<"created_at", "">> } }

ListEvents ==
    { Event("GET", BNone, q) : q \in {QMissing, QNull} \cup { QMap(d) : d \in ListFilters } }

-----------------------------------------------------------------------------
(* State *)

VARIABLES
    table,      \* the metadata store: id -> item
    bucket,     \* the object store: key -> bytes
    issued,     \* how many uuid4() values have been drawn
    last,       \* the last invocation: handler, status, store call that raised
    returned,   \* history: ids returned by uploads answered 200
    removed,    \* history: ids whose delete_item call was carried out
    deleted     \* history: ids whose delete was answered 200

vars == <<table, bucket, issued, last, returned, removed, deleted>>

\* What the handlers read and write: the two stores and the uuid source.
World == [table |-> table, bucket |-> bucket, issued |-> issued]

-----------------------------------------------------------------------------
(* The two stores *)

\* s3.put_object(Bucket, Key, Body): writes, overwriting what the key held.
s3_put_object(b, key, body) ==
    [k \in DOMAIN b \cup {key} |-> IF k = key THEN body ELSE b[k]]

\* s3.get_object(Bucket, Key): NoSuchKey, a ClientError, when the key holds
\* nothing.
s3_get_object(b, key) ==
    IF key \in DOMAIN b
    THEN [exc |-> NoExc, Body |-> b[key]]
    ELSE [exc |-> ClientError("NoSuchKey"), Body |-> <<>>]

\* s3.delete_object that deletes nothing.
s3_delete_object_noop(b, key) == b

\* s3.delete_object(Bucket, Key): succeeds whether or not the key exists.
s3_delete_object(b, key) == [k \in DOMAIN b \ {key} |-> b[k]]

\* table.put_item that writes nothing.
put_item_noop(t, item) == t

\* table.put_item(Item)
put_item(t, item) ==
    [i \in DOMAIN t \cup {item.id} |-> IF i = item.id THEN item ELSE t[i]]

NoItem == [id |-> "", file_name |-> "", metadata |-> {}, created_at |-> ""]

\* table.get_item(Key={"id": id}).get("Item")
get_item(t, id) ==
    IF id \in DOMAIN t THEN [found |-> TRUE, Item |-> t[id]]
    ELSE [found |-> FALSE, Item |-> NoItem]

\* table.delete_item that deletes nothing.
delete_item_noop(t, id) == t

\* table.delete_item(Key={"id": id})
delete_item(t, id) == [i \in DOMAIN t \ {id} |-> t[i]]

\* table.scan(FilterExpression=...): filter_expr is a set of
\* <<attribute, value>> equalities joined by &; the empty set is no filter.
scan(t, filter_expr) ==
    { t[i] : i \in { j \in DOMAIN t :
                       \A c \in filter_expr :
                          IF c[1] = "file_name" THEN t[j].file_name = c[2]
                          ELSE t[j].created_at = c[2] } }

-----------------------------------------------------------------------------
(* Helpers *)

\* response(status_code, body_dict); the body is kept as the dict that
\* json.dumps serialises.
response(status_code, body_dict) == [statusCode |-> status_code, body |-> body_dict]

\* json.loads(body_str)
json_loads(body_str) == [ok |-> body_str.kind = "json", val |-> body_str.json]

\* `not body_str`
no_body(body_str) == body_str.kind \in {"none", "empty"}

\* `not d.get(k)` for a str value, and for base64 text
not_str(d, k) == ~DHas(d, k) \/ DGet(d, k) = ""

not_text(d, k) == ~DHas(d, k) \/ DGet(d, k) = <<>>

\* datetime.now().date().isoformat()
isoformat_now == Today

\* What a handler invocation yields: the response, the stores after it,
\* the store calls it made, and the injected exception it met, if any.
Outcome(resp, t, b, n, calls, raised) ==
    [resp |-> resp, table |-> t, bucket |-> b, issued |-> n, calls |-> calls, raised |-> raised]

Unchanged(w, resp, calls, raised) == Outcome(resp, w.table, w.bucket, w.issued, calls, raised)

\* The world after an invocation.
After(w, out) ==
    [table |-> out.table, bucket |-> out.bucket, issued |-> out.issued]

-----------------------------------------------------------------------------
(* Exception handlers *)

\* An upload handler that answers a ClientError with 404, as get_image does.
upload_except_404(e) ==
    IF e.cls = "ClientError" THEN response(404, [error |-> e.msg])
    ELSE response(500, [error |-> e.msg])

\* upload_image: except Exception as e
upload_except(e) == response(500, [error |-> e.msg])

\* list_images: except Exception as e
list_except(e) == response(500, [error |-> e.msg])

\* A get handler without its `except ClientError` clause.
get_except_500(e) == response(500, [error |-> e.msg])

\* get_image: except ClientError as e / except Exception as e
get_except(e) ==
    IF e.cls = "ClientError" THEN response(404, [error |-> e.msg])
    ELSE response(500, [error |-> e.msg])

\* delete_image: except ClientError as e / except Exception as e
delete_except(e) ==
    IF e.cls = "ClientError" THEN response(404, [error |-> e.msg])
    ELSE response(500, [error |-> e.msg])

-----------------------------------------------------------------------------
(* Handlers: handler(w, event, fault) is the outcome of the handler run on *)
(* event in world w, with the store call fault.call raising fault.exc.     *)

upload_image(w, event, fault) ==
    IF event.httpMethod # "POST" THEN
        Unchanged(w, response(405, [error |-> "Method not allowed, use POST"]), <<>>, NoFault)
    ELSE IF no_body(event.body) THEN
        Unchanged(w, response(400, [error |-> "Request body is missing"]), <<>>, NoFault)
    ELSE IF ~json_loads(event.body).ok THEN
        Unchanged(w, response(400, [error |-> "Invalid JSON in body"]), <<>>, NoFault)
    ELSE LET body == json_loads(event.body).val IN
    IF body.t # "object" THEN      \* body.get raises AttributeError
        Unchanged(w, upload_except(AttributeError), <<>>, NoFault)
    ELSE IF not_str(body.obj, "file_name") \/ not_text(body.obj, "file_content") THEN
        Unchanged(w, response(400, [error |-> "file_name and file_content required"]),
                  <<>>, NoFault)
    ELSE LET file_name == DGet(body.obj, "file_name")
             metadata == IF DHas(body.obj, "metadata") THEN DGet(body.obj, "metadata") ELSE {}
             file_content == b64decode(DGet(body.obj, "file_content"))
         IN
    IF ~file_content.ok THEN
        Unchanged(w, response(400, [error |-> "Invalid base64 for file_content"]), <<>>, NoFault)
    ELSE LET unique_id == uuid4(w.issued + 1) IN
    IF fault.call = "put_object" THEN
        Outcome(upload_except(fault.exc), w.table, w.bucket, w.issued + 1,
                <<"put_object">>, fault)
    ELSE LET bucket2 == s3_put_object(w.bucket, file_name, file_content.bytes)
             item == [id |-> unique_id, file_name |-> file_name,
                      metadata |-> metadata, created_at |-> isoformat_now]
         IN
    IF fault.call = "put_item" THEN
        Outcome(upload_except(fault.exc), w.table, bucket2, w.issued + 1,
                <<"put_object", "put_item">>, fault)
    ELSE
        Outcome(response(200, [message |-> "Image uploaded", file_name |-> file_name,
                               id |-> unique_id]),
                put_item(w.table, item), bucket2, w.issued + 1,
                <<"put_object", "put_item">>, NoFault)

list_images(w, event, fault) ==
    LET qsp == event.queryStringParameters
        params == IF qsp.kind = "map" THEN qsp.map ELSE {}
        by_name == IF not_str(params, "file_name") THEN {}
                   ELSE {<<"file_name", DGet(params, "file_name")>>}
        by_date == IF not_str(params, "created_at") THEN {}
                   ELSE {<<"created_at", DGet(params, "created_at")>>}
        filter_expr == by_name \cup by_date
    IN
    IF fault.call = "scan" THEN
        Unchanged(w, list_except(fault.exc), <<"scan">>, fault)
    ELSE
        Unchanged(w, response(200, [images |-> scan(w.table, filter_expr)]), <<"scan">>, NoFault)

get_image(w, event, fault) ==
    LET qsp == event.queryStringParameters IN
    IF qsp.kind = "null" THEN      \* None.get raises AttributeError
        Unchanged(w, get_except(AttributeError), <<>>, NoFault)
    ELSE LET params == qsp.map IN
    IF not_str(params, "id") THEN
        Unchanged(w, response(400, [error |-> "Missing id in query parameters"]), <<>>, NoFault)
    ELSE LET image_id == DGet(params, "id") IN
    IF fault.call = "get_item" THEN
        Unchanged(w, get_except(fault.exc), <<"get_item">>, fault)
    ELSE LET result == get_item(w.table, image_id) IN
    IF ~result.found THEN
        Unchanged(w, response(404, [error |-> "Image not found"]), <<"get_item">>, NoFault)
    ELSE LET file_name == result.Item.file_name
             created_at == result.Item.created_at
         IN
    IF fault.call = "get_object" THEN
        Unchanged(w, get_except(fault.exc), <<"get_item", "get_object">>, fault)
    ELSE LET s3_obj == s3_get_object(w.bucket, file_name) IN
    IF s3_obj.exc # NoExc THEN
        Unchanged(w, get_except(s3_obj.exc), <<"get_item", "get_object">>, NoFault)
    ELSE
        Unchanged(w, response(200, [id |-> image_id, file_name |-> file_name,
                                    file_content |-> b64encode(s3_obj.Body),
                                    created_at |-> created_at]),
                  <<"get_item", "get_object">>, NoFault)

delete_image(w, event, fault) ==
    IF event.httpMethod # "DELETE" THEN
        Unchanged(w, response(405, [error |-> "Method not allowed, use DELETE"]), <<>>, NoFault)
    ELSE IF no_body(event.body) THEN
        Unchanged(w, response(400, [error |-> "Request body missing"]), <<>>, NoFault)
    ELSE IF ~json_loads(event.body).ok THEN
        Unchanged(w, response(400, [error |-> "Invalid JSON in body"]), <<>>, NoFault)
    ELSE LET body == json_loads(event.body).val IN
    IF body.t # "object" THEN      \* body.get raises AttributeError
        Unchanged(w, delete_except(AttributeError), <<>>, NoFault)
    ELSE IF not_str(body.obj, "id") THEN
        Unchanged(w, response(400, [error |-> "Missing id in body"]), <<>>, NoFault)
    ELSE LET image_id == DGet(body.obj, "id") IN
    IF fault.call = "get_item" THEN
        Unchanged(w, delete_except(fault.exc), <<"get_item">>, fault)
    ELSE LET result == get_item(w.table, image_id) IN
    IF ~result.found THEN
        Unchanged(w, response(404, [error |-> "Image not found"]), <<"get_item">>, NoFault)
    ELSE LET file_name == result.Item.file_name IN
    IF fault.call = "delete_object" THEN
        Unchanged(w, delete_except(fault.exc), <<"get_item", "delete_object">>, fault)
    ELSE LET bucket2 == s3_delete_object(w.bucket, file_name) IN
    IF fault.call = "delete_item" THEN
        Outcome(delete_except(fault.exc), w.table, bucket2, w.issued,
                <<"get_item", "delete_object", "delete_item">>, fault)
    ELSE
        Outcome(response(200, [message |-> "Deleted successfully", id |-> image_id]),
                delete_item(w.table, image_id), bucket2, w.issued,
                <<"get_item", "delete_object", "delete_item">>, NoFault)

-----------------------------------------------------------------------------
(* The state machine *)

UploadFaults == Faults({"put_object", "put_item"})

ListFaults == Faults({"scan"})

GetFaults == Faults({"get_item", "get_object"})

DeleteFaults == Faults({"get_item", "delete_object", "delete_item"})

\* The id a delete event names: body.id; "" when it names none.
BodyId(event) ==
    IF event.body.kind = "json" /\ DHas(event.body.json.obj, "id")
    THEN DGet(event.body.json.obj, "id") ELSE ""

\* What is remembered of an invocation: the handler, the status of its
\* response, and the store call that raised an injected exception, if any.
Invocation(op, out) ==
    [op |-> op, statusCode |-> out.resp.statusCode, raised |-> out.raised.call]

Init ==
    /\ table = [i \in {} |-> i]
    /\ bucket = [k \in {} |-> k]
    /\ issued = 0
    /\ last = [op |-> "none", statusCode |-> 0, raised |-> "none"]
    /\ returned = {}
    /\ removed = {}
    /\ deleted = {}

\* A handler runs to its response. A fault plan counts only when the handler
\* reaches the call it names (out.raised = fault).
Upload ==
    \E event \in UploadEvents, fault \in UploadFaults :
        \E out \in {upload_image(World, event, fault)} :
        /\ out.raised = fault
        /\ out.issued <= MaxUploads
        /\ table' = out.table
        /\ bucket' = out.bucket
        /\ issued' = out.issued
        /\ last' = Invocation("upload", out)
        /\ returned' = IF out.resp.statusCode = 200
                       THEN returned \cup {out.resp.body.id} ELSE returned
        /\ UNCHANGED <<removed, deleted>>

List ==
    \E event \in ListEvents, fault \in ListFaults :
        \E out \in {list_images(World, event, fault)} :
        /\ out.raised = fault
        /\ table' = out.table
        /\ bucket' = out.bucket
        /\ issued' = out.issued
        /\ last' = Invocation("list", out)
        /\ UNCHANGED <<returned, removed, deleted>>

Get ==
    \E event \in GetEvents, fault \in GetFaults :
        \E out \in {get_image(World, event, fault)} :
        /\ out.raised = fault
        /\ table' = out.table
        /\ bucket' = out.bucket
        /\ issued' = out.issued
        /\ last' = Invocation("get", out)
        /\ UNCHANGED <<returned, removed, deleted>>

Delete ==
    \E event \in DeleteEvents, fault \in DeleteFaults :
        \E out \in {delete_image(World, event, fault)} :
        /\ out.raised = fault
        /\ table' = out.table
        /\ bucket' = out.bucket
        /\ issued' = out.issued
        /\ last' = Invocation("delete", out)
        /\ removed' = IF Len(out.calls) = 3 /\ out.raised = NoFault
                      THEN removed \cup {BodyId(event)} ELSE removed
        /\ deleted' = IF out.resp.statusCode = 200
                      THEN deleted \cup {BodyId(event)} ELSE deleted
        /\ UNCHANGED returned

Next == Upload \/ List \/ Get \/ Delete

Spec == Init /\ [][Next]_vars

-----------------------------------------------------------------------------
(* Properties. Each is a predicate of the reachable state: it runs the    *)
(* handlers, as defined above, on every event and fault plan of the case  *)
(* in the current world.                                                   *)

Status(out) == out.resp.statusCode

FaultAt(call, e) == [call |-> call, exc |-> e]

StoresUntouched(out) == out.table = table /\ out.bucket = bucket

\* C1: a well-formed upload of bytes b under file name f that is answered 200
\* with id I, followed at once by a get of I, is answered 200 with
\* file_name = f and file_content = base64(b) (no store call raising).
C1_RoundTrip ==
    \A f \in FileNames, b \in Blobs :
        \A up \in {upload_image(World, UploadOf(f, b), NoFault)} :
            Status(up) = 200 =>
                \A g \in {get_image(After(World, up), GetOf(up.resp.body.id), NoFault)} :
                    /\ Status(g) = 200
                    /\ g.resp.body.file_name = f
                    /\ g.resp.body.file_content = Base64(b)

\* An upload has just been answered 200 and a get of a returned id yields 200
\* with the base64 text of a blob.
C1_Witness ==
    /\ last.op = "upload" /\ last.statusCode = 200
    /\ \E i \in returned, b \in Blobs :
          \E g \in {get_image(World, GetOf(i), NoFault)} :
              Status(g) = 200 /\ g.resp.body.file_content = Base64(b)

\* C2: for every id returned by a 200 upload, a delete of it (no store call
\* raising) is answered 200 as long as no delete of it has been answered 200,
\* and 404 ever after, whatever else was invoked in between.
C2_DeleteTwice ==
    \A i \in returned :
        Status(delete_image(World, DeleteOf(i), NoFault)) = IF i \in deleted THEN 404 ELSE 200

\* A delete has just been answered 404 while some returned id is deleted and
\* deleting that id again yields 404.
C2_Witness ==
    /\ last.op = "delete" /\ last.statusCode = 404 /\ last.raised = "none"
    /\ \E i \in deleted : Status(delete_image(World, DeleteOf(i), NoFault)) = 404

\* The status the documented order of checks gives an upload event: 405 for a
\* wrong method, else 400 for an absent body, for text that is not JSON, for
\* a missing or empty file_name or file_content, for a file_content that is
\* not base64; 0 when every check passes.
UploadChecks(event) ==
    IF event.httpMethod # "POST" THEN 405
    ELSE IF event.body.kind \in {"none", "empty", "malformed"} THEN 400
    ELSE IF event.body.json.t # "object" THEN 400
    ELSE IF \/ ~DHas(event.body.json.obj, "file_name")
            \/ ~DHas(event.body.json.obj, "file_content") THEN 400
    ELSE IF \/ DGet(event.body.json.obj, "file_name") = ""
            \/ DGet(event.body.json.obj, "file_content") = <<>> THEN 400
    ELSE IF ~IsValidBase64(DGet(event.body.json.obj, "file_content")) THEN 400
    ELSE 0

\* The same for a delete event; 404 for an id with no record.
DeleteChecks(event) ==
    IF event.httpMethod # "DELETE" THEN 405
    ELSE IF event.body.kind \in {"none", "empty", "malformed"} THEN 400
    ELSE IF event.body.json.t # "object" THEN 400
    ELSE IF ~DHas(event.body.json.obj, "id") THEN 400
    ELSE IF DGet(event.body.json.obj, "id") = "" THEN 400
    ELSE IF DGet(event.body.json.obj, "id") \notin DOMAIN table THEN 404
    ELSE 0

\* C3: upload and delete answer a request that fails a check with the status
\* of the first failing check in the documented order (405, 400, 400, 400,
\* then 400 for text that is not base64 or 404 for an unknown id), never with
\* 200 or 500.
C3_ValidationOrder ==
    /\ \A event \in UploadEvents :
          UploadChecks(event) # 0 =>
              Status(upload_image(World, event, NoFault)) = UploadChecks(event)
    /\ \A event \in DeleteEvents :
          DeleteChecks(event) # 0 =>
              Status(delete_image(World, event, NoFault)) = DeleteChecks(event)

\* Whether a get event carries no id: queryStringParameters absent (no such
\* key, or null), or a mapping without an id or with an empty one.
CarriesNoId(event) ==
    \/ event.queryStringParameters.kind \in {"missing", "null"}
    \/ ~DHas(event.queryStringParameters.map, "id")
    \/ DGet(event.queryStringParameters.map, "id") = ""

\* C4: a get that carries no id is answered 400 without a store call; a get
\* of a non-empty id with no record is answered 404.
C4_GetMissingId ==
    \A event \in GetEvents :
        \A out \in {get_image(World, event, NoFault)} :
            IF CarriesNoId(event)
            THEN Status(out) = 400 /\ out.calls = <<>>
            ELSE DGet(event.queryStringParameters.map, "id") \notin DOMAIN table
                    => Status(out) = 404

C6_InjectedFailure ==
    /\ \A f \in FileNames, b \in Blobs, c \in {"put_object", "put_item"},
          e \in InjectedExceptions :
          \A out \in {upload_image(World, UploadOf(f, b), FaultAt(c, e))} :
              Status(out) = 500 /\ out.resp.body.error # ""
    /\ \A event \in ListEvents, e \in InjectedExceptions :
          \A out \in {list_images(World, event, FaultAt("scan", e))} :
              Status(out) = 500 /\ out.resp.body.error # ""

\* C6, amended: the answer is 500 and its error string is str(e), which is
\* non-empty exactly when the exception's message is.
C6_Status500 ==
    /\ \A f \in FileNames, b \in Blobs, c \in {"put_object", "put_item"},
          e \in InjectedExceptions :
          \A out \in {upload_image(World, UploadOf(f, b), FaultAt(c, e))} :
              Status(out) = 500 /\ out.resp.body.error = e.msg
    /\ \A event \in ListEvents, e \in InjectedExceptions :
          \A out \in {list_images(World, event, FaultAt("scan", e))} :
              Status(out) = 500 /\ out.resp.body.error = e.msg

\* An upload whose record write raised has just been answered 500.
C6_Witness ==
    last.op = "upload" /\ last.raised = "put_item" /\ last.statusCode = 500

\* The records that match every filter an event supplies, by exact equality.
Matching(event) ==
    LET params == event.queryStringParameters.map IN
    { r \in { table[i] : i \in DOMAIN table } :
        /\ DHas(params, "file_name") => r.file_name = DGet(params, "file_name")
        /\ DHas(params, "created_at") => r.created_at = DGet(params, "created_at") }

\* C7: a list is answered 200 with exactly the records of the metadata store
\* that match every supplied filter.
C7_ListExact ==
    \A event \in ListEvents :
        \A out \in {list_images(World, event, NoFault)} :
            Status(out) = 200 /\ out.resp.body.images = Matching(event)

\* C8: two successive well-formed uploads of b1 then b2 under one file name
\* return two distinct ids; both records (and those already there) are in
\* the metadata store, the object store holds b2 at that key, and a get of
\* either id yields 200 with base64(b2). Every upload answered 200 returns
\* an id that no earlier upload returned.
C8_SharedBlobKey ==
    /\ \A f \in FileNames, b1 \in Blobs, b2 \in Blobs :
          \A u1 \in {upload_image(World, UploadOf(f, b1), NoFault)} :
          \A u2 \in {upload_image(After(World, u1), UploadOf(f, b2), NoFault)} :
              /\ Status(u1) = 200 /\ Status(u2) = 200
              /\ u1.resp.body.id # u2.resp.body.id
              /\ DOMAIN u2.table = DOMAIN table \cup {u1.resp.body.id, u2.resp.body.id}
              /\ u2.bucket[f] = b2
              /\ \A i \in {u1.resp.body.id, u2.resp.body.id} :
                    \A g \in {get_image(After(World, u2), GetOf(i), NoFault)} :
                        Status(g) = 200 /\ g.resp.body.file_content = Base64(b2)
    /\ \A event \in UploadEvents :
          \A out \in {upload_image(World, event, NoFault)} :
              Status(out) = 200 => out.resp.body.id \notin returned

\* An upload has just been answered 200 and two records share a file name.
C8_Witness ==
    /\ last.op = "upload" /\ last.statusCode = 200
    /\ \E i \in DOMAIN table, j \in DOMAIN table :
          /\ i # j /\ table[i].file_name = table[j].file_name
          /\ Status(get_image(World, GetOf(i), NoFault)) = 200
          /\ Status(get_image(World, GetOf(j), NoFault)) = 200

\* C9: an upload whose record write raises is answered 500, leaves the blob
\* written at key file_name and adds no record; a delete whose record delete
\* raises leaves the record while the blob is gone, so that a get of the id
\* then yields 404 and a delete of it still finds the record.
C9_NoCompensation ==
    /\ \A f \in FileNames, b \in Blobs, e \in InjectedExceptions :
          \A out \in {upload_image(World, UploadOf(f, b), FaultAt("put_item", e))} :
              /\ Status(out) = 500
              /\ f \in DOMAIN out.bucket /\ out.bucket[f] = b
              /\ out.table = table
    /\ \A i \in DOMAIN table, e \in InjectedExceptions :
          \A out \in {delete_image(World, DeleteOf(i), FaultAt("delete_item", e))} :
              /\ out.table = table
              /\ table[i].file_name \notin DOMAIN out.bucket
              /\ Status(get_image(After(World, out), GetOf(i), NoFault)) = 404
              /\ Len(delete_image(After(World, out), DeleteOf(i), NoFault).calls) > 1

\* A delete whose record delete raised has just returned, and a record is
\* left whose blob is gone.
C9_Witness ==
    /\ last.op = "delete" /\ last.raised = "delete_item"
    /\ \E i \in DOMAIN table : table[i].file_name \notin DOMAIN bucket

\* C10: the ids in the metadata store are the ids returned by uploads
\* answered 200 less those whose record delete was carried out; a list, a
\* get, and every request answered 400, 405 or 404 by a failed lookup leave
\* both stores as they were. (A request answered 400 or 405 makes no store
\* call, so no fault plan bears on it; a lookup fails by finding no record
\* or by raising.)
C10_MetadataInvariant ==
    /\ DOMAIN table = returned \ removed
    /\ \A event \in ListEvents, fault \in ListFaults :
          StoresUntouched(list_images(World, event, fault))
    /\ \A event \in GetEvents, fault \in GetFaults :
          StoresUntouched(get_image(World, event, fault))
    /\ \A event \in UploadEvents :
          \A out \in {upload_image(World, event, NoFault)} :
              Status(out) \in {400, 405} => StoresUntouched(out)
    /\ \A event \in DeleteEvents, fault \in Faults({"get_item"}) :
          \A out \in {delete_image(World, event, fault)} :
              (Status(out) \in {400, 405} \/ (Status(out) = 404 /\ Len(out.calls) <= 1))
                  => StoresUntouched(out)

\* A request has just been answered 400, 404 or 405 while one returned id
\* has had its record deleted and another is still in the metadata store.
C10_Witness ==
    /\ last.statusCode \in {400, 404, 405}
    /\ removed # {}
    /\ returned \ removed # {}

=============================================================================
